---- MODULE Spec2Model ----
(***************************************************************************)
(* Model of the Stripe webhook edge function                               *)
(* (supabase/functions/stripe-webhook/index.ts) and of the two SQL         *)
(* migrations that define the tables it writes and the coach/athlete       *)
(* row-level-security policies.                                            *)
(*                                                                         *)
(* One webhook request is one step; when the invocation is done its        *)
(* request, response and locals are gone, and Stripe may deliver the same  *)
(* event again.  The Stripe API and the Supabase auth API are external, so *)
(* each call's response is a nondeterministic choice; a handler is an      *)
(* operator that yields the set of its possible outcomes.                  *)
(***************************************************************************)
EXTENDS Integers, Sequences, FiniteSets, Bags, TLC

VARIABLES
    subscriptions,   \* table subscriptions: a bag of rows (ids are random)
    coaching_calls,  \* table coaching_calls: a bag of rows (ids are random)
    profiles,        \* table profiles: user id -> [stripe_customer_id, role]
    coach_athletes,  \* table coach_athletes: set of [coach_id, athlete_id]
    now,             \* the wall clock, in seconds
    req,             \* the request of the current invocation (Idle: none)
    resp,            \* the response it returned
    tier,            \* handleCheckoutCompleted's local `tier` in that request
    calls,           \* Stripe / auth API calls made while serving it
    writes,          \* database write calls issued while serving it
    authUid,         \* auth.uid() of the last coach_athletes statement
    visible          \* rows the last SELECT on coach_athletes returned

vars == <<subscriptions, coaching_calls, profiles, coach_athletes, now,
          req, resp, tier, calls, writes, authUid, visible>>

webhookVars == <<subscriptions, coaching_calls, now, req, resp, tier, calls, writes>>
rlsVars == <<coach_athletes, authUid, visible>>

-----------------------------------------------------------------------------
(* Bounds *)

MaxRows == 2
MaxTime == 1
MaxItems == 2

-----------------------------------------------------------------------------
(* Values *)

\* SQL NULL / JS null / undefined for string-valued fields.
NULL == "null"

\* An e-mail address is the sequence of its character codes; the absent
\* address (null, undefined) is the empty sequence.
NoEmail == <<>>

\* JS truthiness of a string | null value.
Truthy(s) == s # NULL /\ s # ""

Digit(d) == <<"0", "1", "2", "3", "4", "5", "6", "7", "8", "9">>[d + 1]

\* new Date(sec * 1000).toISOString(), for sec within the first minute.
ToISO(sec) == "1970-01-01T00:00:" \o Digit(sec \div 10) \o Digit(sec % 10) \o ".000Z"

\* String.prototype.toLowerCase on character codes (A-Z -> a-z).
toLowerCase(s) == [i \in DOMAIN s |-> IF s[i] \in 65..90 THEN s[i] + 32 ELSE s[i]]

\* auth.users, in the order listUsers returns them, with their addresses
\* ("a@x" and "b@x").
UserList == <<"u1", "u2">>
Users == {UserList[i] : i \in DOMAIN UserList}
AuthEmail(u) == IF u = "u1" THEN <<97, 64, 120>> ELSE <<98, 64, 120>>

WEBHOOK_SECRET == "whsec_live"

SubTiers == {"blueprint", "coaching_call", "full_coaching"}
SubStatuses == {"active", "past_due", "canceled", "expired"}
CallStatuses == {"purchased", "scheduled", "completed"}
Roles == {"athlete", "coach", "owner"}

RecognizedTypes == {"checkout.session.completed", "customer.subscription.updated",
                    "customer.subscription.deleted", "invoice.payment_failed",
                    "invoice.paid"}

-----------------------------------------------------------------------------
(* The database: constraints and single-statement operations *)


\* Faulty variant: the table has no CHECK constraints.
SubscriptionsCheck_None(row) == TRUE

\* CHECK / NOT NULL constraints of table subscriptions.
SubscriptionsCheck(row) ==
    /\ row.tier # NULL
    /\ row.tier \in SubTiers
    /\ row.status # NULL
    /\ row.status \in SubStatuses

\* CHECK / NOT NULL constraint of table coaching_calls.
CoachingCallsCheck(row) ==
    /\ row.status # NULL
    /\ row.status \in CallStatuses

\* A database write as the client sees it: the table after it, and whether
\* the statement was accepted.  supabase-js reports a rejected statement in
\* the `error` field of the result and does not throw.  The columns id,
\* created_at and purchased_at get their defaults and are never read or
\* written again; the rows here leave them out.
InsertSubscription(table, row) ==
    LET full == [user_id |-> row.user_id,
                 stripe_customer_id |-> row.stripe_customer_id,
                 stripe_subscription_id |-> row.stripe_subscription_id,
                 customer_email |-> row.customer_email,
                 tier |-> row.tier,
                 status |-> row.status,
                 current_period_end |-> row.current_period_end,
                 cancel_at_period_end |-> FALSE,
                 updated_at |-> ToISO(now)]
    IN  IF SubscriptionsCheck(full)
        THEN [table |-> table (+) SetToBag({full}), ok |-> TRUE]
        ELSE [table |-> table, ok |-> FALSE]

InsertCoachingCall(table, row) ==
    LET full == [user_id |-> row.user_id,
                 customer_email |-> row.customer_email,
                 stripe_payment_intent_id |-> row.stripe_payment_intent_id,
                 status |-> row.status]
    IN  IF CoachingCallsCheck(full)
        THEN [table |-> table (+) SetToBag({full}), ok |-> TRUE]
        ELSE [table |-> table, ok |-> FALSE]

\* UPDATE subscriptions SET <fields of patch> WHERE stripe_subscription_id = id.
\* A NULL column never equals the argument.
Merge(row, patch) ==
    [f \in DOMAIN row |-> IF f \in DOMAIN patch THEN patch[f] ELSE row[f]]

\* Faulty variant: a canceled row is never matched again.
Matches_NotCanceled(row, id) ==
    row.stripe_subscription_id # NULL /\ row.stripe_subscription_id = id
    /\ row.status # "canceled"

Matches(row, id) ==
    row.stripe_subscription_id # NULL /\ row.stripe_subscription_id = id

RECURSIVE Copies(_, _)
Copies(table, rows) ==
    IF rows = {} THEN 0
    ELSE LET r == CHOOSE x \in rows : TRUE
         IN  table[r] + Copies(table, rows \ {r})

UpdateSubscriptions(table, id, patch) ==
    LET Upd(r) == IF Matches(r, id) THEN Merge(r, patch) ELSE r
        rows == {Upd(r) : r \in DOMAIN table}
        new == [r2 \in rows |-> Copies(table, {r \in DOMAIN table : Upd(r) = r2})]
    IN  IF \A r \in rows : SubscriptionsCheck(r)
        THEN [table |-> new, ok |-> TRUE]
        ELSE [table |-> table, ok |-> FALSE]

Write(tbl, op, ok) == [table |-> tbl, op |-> op, ok |-> ok]

-----------------------------------------------------------------------------
(* External APIs: the responses a call can get *)

Call(api, ok, data, cpe) == [api |-> api, ok |-> ok, data |-> data, cpe |-> cpe]

\* metadata.tier of a line item's product (NULL when the price, the product
\* or its metadata are missing).
ItemTiers == {NULL, "blueprint", "full_coaching"}

SeqsUpTo(S, n) == UNION {[1..k -> S] : k \in 0..n}

\* stripe.checkout.sessions.listLineItems: throws, or lists the line items.
LineItemsResponses ==
    {Call("listLineItems", FALSE, <<>>, 0)}
    \cup {Call("listLineItems", TRUE, d, 0) : d \in SeqsUpTo(ItemTiers, MaxItems)}

\* current_period_end of a subscription, in seconds: as Stripe's API returns
\* it, and as an event carries it.
RetrievedPeriodEnds == {1}
EventPeriodEnds == {2}

\* stripe.subscriptions.retrieve: throws, or returns the subscription.
RetrieveResponses ==
    {Call("retrieve", FALSE, <<>>, 0)}
    \cup {Call("retrieve", TRUE, <<>>, p) : p \in RetrievedPeriodEnds}

\* supabaseAdmin.auth.admin.listUsers: an error result (no users), or the users.
ListUsersResponses ==
    {Call("listUsers", FALSE, <<>>, 0), Call("listUsers", TRUE, UserList, 0)}

StripeApis == {"listLineItems", "retrieve"}

-----------------------------------------------------------------------------
(* The handlers *)

\* What a handler leaves behind.
Outcome(subs, ccalls, profs, t, api, w, threw) ==
    [subscriptions |-> subs, coaching_calls |-> ccalls, profiles |-> profs,
     tier |-> t, calls |-> api, writes |-> w, threw |-> threw]

NoEffect(t, api, threw) ==
    Outcome(subscriptions, coaching_calls, profiles, t, api, <<>>, threw)

getTierFromSession(session) ==
    IF Truthy(session.metadata_tier) THEN session.metadata_tier ELSE NULL


\* Faulty variant: the loop does not stop at the first product with a tier.
RECURSIVE FirstProductTier_Last(_)
FirstProductTier_Last(data) ==
    IF data = <<>> THEN NULL
    ELSE LET rest == FirstProductTier_Last(Tail(data))
         IN  IF Truthy(rest) THEN rest
             ELSE IF Truthy(Head(data)) THEN Head(data)
             ELSE NULL

\* The loop of getTierFromLineItems over lineItems.data.
RECURSIVE FirstProductTier(_)
FirstProductTier(data) ==
    IF data = <<>> THEN NULL
    ELSE IF Truthy(Head(data)) THEN Head(data)
    ELSE FirstProductTier(Tail(data))

\* The possible results of getTierFromLineItems: the call and the tier found.
getTierFromLineItems(sessionId) ==
    {[call |-> r, tier |-> IF r.ok THEN FirstProductTier(r.data) ELSE NULL]
        : r \in LineItemsResponses}

\* An expandable field (string id | expanded object | null) read as
\*   typeof x === "string" ? x : x?.id
ExpandableId(x) ==
    IF x.kind = "string" THEN x.id
    ELSE IF x.kind = "object" THEN x.id
    ELSE NULL


\* Faulty variant: the addresses are compared as they are.
RECURSIVE FindUser_CaseSensitive(_, _)
FindUser_CaseSensitive(list, customerEmail) ==
    IF list = <<>> THEN NULL
    ELSE IF AuthEmail(Head(list)) # NoEmail
            /\ AuthEmail(Head(list)) = customerEmail
         THEN Head(list)
    ELSE FindUser_CaseSensitive(Tail(list), customerEmail)

\* users?.users?.find(u => u.email?.toLowerCase() === customerEmail.toLowerCase())
RECURSIVE FindUser(_, _)
FindUser(list, customerEmail) ==
    IF list = <<>> THEN NULL
    ELSE IF AuthEmail(Head(list)) # NoEmail
            /\ toLowerCase(AuthEmail(Head(list))) = toLowerCase(customerEmail)
         THEN Head(list)
    ELSE FindUser(Tail(list), customerEmail)

\* Lines 53-98 of handleCheckoutCompleted: the tier is resolved (t), the
\* calls made so far are api.
CheckoutWrite(session, customerEmail, stripeCustomerId, t, api) ==
    LET lookups == IF customerEmail # NoEmail
                   THEN {<<r>> : r \in ListUsersResponses}
                   ELSE {<<>>}
    IN  UNION {
          LET userId == IF lu # <<>> /\ lu[1].ok
                        THEN FindUser(lu[1].data, customerEmail)
                        ELSE NULL
              api1 == api \o lu
          IN  IF t = "coaching_call"
              THEN LET ins == InsertCoachingCall(coaching_calls,
                                 [user_id |-> userId,
                                  customer_email |-> customerEmail,
                                  stripe_payment_intent_id |-> session.payment_intent,
                                  status |-> "purchased"])
                   IN  {Outcome(subscriptions, ins.table, profiles, t, api1,
                                <<Write("coaching_calls", "insert", ins.ok)>>, FALSE)}
              ELSE LET stripeSubscriptionId == session.subscription
                       retrieves == IF Truthy(stripeSubscriptionId)
                                    THEN {<<r>> : r \in RetrieveResponses}
                                    ELSE {<<>>}
                   IN  { IF rt # <<>> /\ ~rt[1].ok
                         THEN NoEffect(t, api1 \o rt, TRUE)
                         ELSE LET currentPeriodEnd ==
                                      IF rt # <<>> THEN ToISO(rt[1].cpe) ELSE NULL
                                  ins == InsertSubscription(subscriptions,
                                            [user_id |-> userId,
                                             stripe_customer_id |-> stripeCustomerId,
                                             stripe_subscription_id |-> stripeSubscriptionId,
                                             customer_email |-> customerEmail,
                                             tier |-> t,
                                             status |-> "active",
                                             current_period_end |-> currentPeriodEnd])
                                  link == userId # NULL /\ Truthy(stripeCustomerId)
                              IN  Outcome(ins.table, coaching_calls,
                                     IF link
                                     THEN [profiles EXCEPT
                                             ![userId].stripe_customer_id = stripeCustomerId]
                                     ELSE profiles,
                                     t, api1 \o rt,
                                     <<Write("subscriptions", "insert", ins.ok)>>
                                        \o (IF link
                                            THEN <<Write("profiles", "update", TRUE)>>
                                            ELSE <<>>),
                                     FALSE)
                         : rt \in retrieves }
          : lu \in lookups }

handleCheckoutCompleted(session) ==
    LET customerEmail == IF session.details_email # NoEmail
                         THEN session.details_email
                         ELSE session.customer_email
        stripeCustomerId == ExpandableId(session.customer)
        t0 == getTierFromSession(session)
        resolved == IF Truthy(t0)
                    THEN {[tier |-> t0, calls |-> <<>>, threw |-> FALSE]}
                    ELSE {[tier |-> g.tier, calls |-> <<g.call>>, threw |-> ~g.call.ok]
                            : g \in getTierFromLineItems(session.id)}
    IN  UNION {
          IF r.threw THEN {NoEffect(NULL, r.calls, TRUE)}
          ELSE IF ~Truthy(r.tier) THEN {NoEffect(NULL, r.calls, FALSE)}
          ELSE CheckoutWrite(session, customerEmail, stripeCustomerId, r.tier, r.calls)
          : r \in resolved }


\* Faulty variant: cancel_at_period_end is not looked at.
UpdatedStatus_IgnoresCancel(subscription) ==
    IF subscription.status = "active" THEN "active"
    ELSE IF subscription.status = "past_due" THEN "past_due"
    ELSE "canceled"

\* The status handleSubscriptionUpdated stores.
UpdatedStatus(subscription) ==
    IF subscription.cancel_at_period_end THEN "active"
    ELSE IF subscription.status = "active" THEN "active"
    ELSE IF subscription.status = "past_due" THEN "past_due"
    ELSE "canceled"

handleSubscriptionUpdated(subscription) ==
    LET upd == UpdateSubscriptions(subscriptions, subscription.id,
                  [status |-> UpdatedStatus(subscription),
                   current_period_end |-> ToISO(subscription.current_period_end),
                   cancel_at_period_end |-> subscription.cancel_at_period_end,
                   updated_at |-> ToISO(now)])
    IN  {Outcome(upd.table, coaching_calls, profiles, NULL, <<>>,
                 <<Write("subscriptions", "update", upd.ok)>>, FALSE)}

handleSubscriptionDeleted(subscription) ==
    LET upd == UpdateSubscriptions(subscriptions, subscription.id,
                  [status |-> "canceled",
                   cancel_at_period_end |-> FALSE,
                   updated_at |-> ToISO(now)])
    IN  {Outcome(upd.table, coaching_calls, profiles, NULL, <<>>,
                 <<Write("subscriptions", "update", upd.ok)>>, FALSE)}


\* Faulty variant: no early return for an invoice without a subscription.
handleInvoicePaymentFailed_NoGuard(invoice) ==
    LET subscriptionId == ExpandableId(invoice.invoice_subscription)
        upd == UpdateSubscriptions(subscriptions, subscriptionId,
                  [status |-> "past_due",
                   updated_at |-> ToISO(now)])
    IN  {Outcome(upd.table, coaching_calls, profiles, NULL, <<>>,
                 <<Write("subscriptions", "update", upd.ok)>>, FALSE)}

handleInvoicePaymentFailed(invoice) ==
    LET subscriptionId == ExpandableId(invoice.invoice_subscription)
    IN  IF ~Truthy(subscriptionId) THEN {NoEffect(NULL, <<>>, FALSE)}
        ELSE LET upd == UpdateSubscriptions(subscriptions, subscriptionId,
                           [status |-> "past_due",
                            updated_at |-> ToISO(now)])
             IN  {Outcome(upd.table, coaching_calls, profiles, NULL, <<>>,
                          <<Write("subscriptions", "update", upd.ok)>>, FALSE)}

handleInvoicePaid(invoice) ==
    LET subscriptionId == ExpandableId(invoice.invoice_subscription)
    IN  IF ~Truthy(subscriptionId) THEN {NoEffect(NULL, <<>>, FALSE)}
        ELSE { IF ~sub.ok THEN NoEffect(NULL, <<sub>>, TRUE)
               ELSE LET upd == UpdateSubscriptions(subscriptions, subscriptionId,
                                  [status |-> "active",
                                   current_period_end |-> ToISO(sub.cpe),
                                   updated_at |-> ToISO(now)])
                    IN  Outcome(upd.table, coaching_calls, profiles, NULL, <<sub>>,
                                <<Write("subscriptions", "update", upd.ok)>>, FALSE)
               : sub \in RetrieveResponses }


\* Faulty variant: the signature is not compared with the secret.
constructEventOk_Unchecked(signature, secret) == TRUE

\* stripe.webhooks.constructEventAsync(body, signature, WEBHOOK_SECRET): the
\* signature is the key the sender signed the body with; it verifies when
\* that key is the secret.
constructEventOk(signature, secret) == signature = secret


\* Faulty variant: an unhandled event type is an error.
Dispatch_Strict(event) ==
    IF event.type = "checkout.session.completed"
        THEN handleCheckoutCompleted(event.obj)
    ELSE IF event.type = "customer.subscription.updated"
        THEN handleSubscriptionUpdated(event.obj)
    ELSE IF event.type = "customer.subscription.deleted"
        THEN handleSubscriptionDeleted(event.obj)
    ELSE IF event.type = "invoice.payment_failed"
        THEN handleInvoicePaymentFailed(event.obj)
    ELSE IF event.type = "invoice.paid"
        THEN handleInvoicePaid(event.obj)
    ELSE {NoEffect(NULL, <<>>, TRUE)}

\* The switch on event.type.
Dispatch(event) ==
    IF event.type = "checkout.session.completed"
        THEN handleCheckoutCompleted(event.obj)
    ELSE IF event.type = "customer.subscription.updated"
        THEN handleSubscriptionUpdated(event.obj)
    ELSE IF event.type = "customer.subscription.deleted"
        THEN handleSubscriptionDeleted(event.obj)
    ELSE IF event.type = "invoice.payment_failed"
        THEN handleInvoicePaymentFailed(event.obj)
    ELSE IF event.type = "invoice.paid"
        THEN handleInvoicePaid(event.obj)
    ELSE {NoEffect(NULL, <<>>, FALSE)}

Response(status, body) == [status |-> status, body |-> body]

\* The response after the switch: the catch block, or the acknowledgment.
HandlerResponse(out) ==
    IF out.threw THEN Response(500, "Handler error")
    ELSE Response(200, "received")

Rejected(r, response) ==
    /\ req' = r
    /\ resp' = response
    /\ tier' = NULL
    /\ calls' = <<>>
    /\ writes' = <<>>
    /\ UNCHANGED <<subscriptions, coaching_calls, profiles, now>>

\* The request handler passed to serve().
serve(r) ==
    /\ IF r.method = "OPTIONS"
           THEN Rejected(r, Response(200, "ok"))
       ELSE IF ~Truthy(r.signature)
           THEN Rejected(r, Response(400, "No signature"))
       ELSE IF ~constructEventOk(r.signature, WEBHOOK_SECRET)
           THEN Rejected(r, Response(400, "Webhook Error"))
       ELSE \E out \in Dispatch(r.body) :
               /\ req' = r
               /\ resp' = HandlerResponse(out)
               /\ tier' = out.tier
               /\ calls' = out.calls
               /\ writes' = out.writes
               /\ subscriptions' = out.subscriptions
               /\ coaching_calls' = out.coaching_calls
               /\ profiles' = out.profiles
               /\ UNCHANGED now
    /\ UNCHANGED rlsVars

-----------------------------------------------------------------------------
(* Requests *)

Ref(kind, id) == [kind |-> kind, id |-> id]
NullRef == Ref("null", NULL)

\* event.data.object, with the fields the handlers read.
Blank ==
    [id |-> NULL, metadata_tier |-> NULL, details_email |-> NoEmail,
     customer_email |-> NoEmail, customer |-> NullRef, subscription |-> NULL,
     payment_intent |-> NULL, invoice_subscription |-> NullRef, status |-> NULL,
     cancel_at_period_end |-> FALSE, current_period_end |-> 0]

SubIds == {"sub_1", "sub_2"}

Session == [Blank EXCEPT !.id = "cs_1", !.payment_intent = "pi_1"]

\* "A@x" (the address of u1 in another case) and "c@x" (nobody's).
DetailsEmails == {NoEmail, <<65, 64, 120>>}
CustomerEmails == {NoEmail, <<99, 64, 120>>}

\* Sessions whose metadata carries no tier: the line items decide.
ItemSessions ==
    {[Session EXCEPT !.metadata_tier = mt] : mt \in {NULL, ""}}

\* One-time purchases with a tier in the metadata; "gold" is a tier the
\* schema does not know.
PaymentSessions ==
    {[Session EXCEPT !.metadata_tier = "blueprint", !.details_email = de,
                     !.customer_email = ce, !.customer = cu]
        : de \in DetailsEmails, ce \in CustomerEmails,
          cu \in {NullRef, Ref("string", "cus_1")}}
    \cup {[Session EXCEPT !.metadata_tier = "coaching_call", !.details_email = de,
                          !.customer_email = ce, !.customer = Ref("string", "cus_1")]
        : de \in DetailsEmails, ce \in CustomerEmails}
    \cup {[Session EXCEPT !.metadata_tier = "gold", !.details_email = de,
                          !.customer = Ref("string", "cus_1")]
        : de \in DetailsEmails}

\* Subscription-mode sessions.
SubscriptionSessions ==
    {[Session EXCEPT !.metadata_tier = "full_coaching", !.subscription = "sub_1"]}

Sessions == ItemSessions \cup PaymentSessions \cup SubscriptionSessions

StripeStatuses == {"active", "past_due", "trialing"}

StripeSubscriptions ==
    {[Blank EXCEPT !.id = id, !.status = st, !.cancel_at_period_end = cape,
                   !.current_period_end = cpe]
        : id \in SubIds, st \in StripeStatuses, cape \in BOOLEAN,
          cpe \in EventPeriodEnds}

DeletedSubscriptions ==
    {[Blank EXCEPT !.id = id, !.status = "canceled", !.current_period_end = cpe]
        : id \in SubIds, cpe \in EventPeriodEnds}

Invoices ==
    {[Blank EXCEPT !.id = "in_1", !.invoice_subscription = s]
        : s \in {NullRef, Ref("string", "sub_2"), Ref("object", "sub_1")}}

Event(type, obj) == [type |-> type, obj |-> obj]

\* One body of each event type, for the requests that are turned away.
SampleBodies ==
    {Event("checkout.session.completed",
           [Session EXCEPT !.metadata_tier = "blueprint",
                           !.customer = Ref("string", "cus_1")]),
     Event("customer.subscription.updated",
           [Blank EXCEPT !.id = "sub_1", !.status = "past_due",
                         !.current_period_end = 2]),
     Event("customer.subscription.deleted",
           [Blank EXCEPT !.id = "sub_1", !.status = "canceled",
                         !.current_period_end = 2]),
     Event("invoice.payment_failed",
           [Blank EXCEPT !.id = "in_1", !.invoice_subscription = Ref("string", "sub_1")]),
     Event("invoice.paid",
           [Blank EXCEPT !.id = "in_1", !.invoice_subscription = Ref("string", "sub_1")]),
     Event("customer.created", Blank)}

Request(method, signature, body) ==
    [method |-> method, signature |-> signature, body |-> body]

Signed(body) == Request("POST", WEBHOOK_SECRET, body)

\* No invocation is running.
Idle == Request("NONE", NULL, Event(NULL, Blank))

Verified(r) ==
    r.method = "POST" /\ Truthy(r.signature) /\ r.signature = WEBHOOK_SECRET

Rows == BagCardinality(subscriptions) + BagCardinality(coaching_calls)

\* The tables of the model hold MaxRows rows: a purchase is taken only while
\* there is room.
HasRoom(r) ==
    (Verified(r) /\ r.body.type = "checkout.session.completed") => Rows < MaxRows

-----------------------------------------------------------------------------
(* Actions *)

Init ==
    /\ subscriptions = EmptyBag
    /\ coaching_calls = EmptyBag
    /\ profiles = [u \in Users |-> [stripe_customer_id |-> NULL, role |-> "athlete"]]
    /\ coach_athletes = {}
    /\ now = 0
    /\ req = Idle
    /\ resp = Response(0, NULL)
    /\ tier = NULL
    /\ calls = <<>>
    /\ writes = <<>>
    /\ authUid = NULL
    /\ visible = {}

\* Time passes.
Tick ==
    /\ now < MaxTime
    /\ now' = now + 1
    /\ UNCHANGED <<subscriptions, coaching_calls, profiles, req, resp, tier,
                   calls, writes>>
    /\ UNCHANGED rlsVars

\* The invocation ends.
Done ==
    /\ req # Idle
    /\ req' = Idle
    /\ resp' = Response(0, NULL)
    /\ tier' = NULL
    /\ calls' = <<>>
    /\ writes' = <<>>
    /\ UNCHANGED <<subscriptions, coaching_calls, profiles, now>>
    /\ UNCHANGED rlsVars

ReceiveOptions ==
    /\ req = Idle
    /\ \E sig \in {NULL, WEBHOOK_SECRET} :
          serve(Request("OPTIONS", sig, Event(NULL, Blank)))

ReceiveUnsigned ==
    /\ req = Idle
    /\ \/ \E b \in SampleBodies : serve(Request("POST", NULL, b))
       \/ serve(Request("POST", "", Event("customer.created", Blank)))

ReceiveBadSignature ==
    /\ req = Idle
    /\ \E b \in SampleBodies :
          serve(Request("POST", "whsec_other", b))

ReceiveCheckoutCompleted ==
    /\ req = Idle
    /\ \E o \in Sessions :
          /\ HasRoom(Signed(Event("checkout.session.completed", o)))
          /\ serve(Signed(Event("checkout.session.completed", o)))

ReceiveSubscriptionUpdated ==
    /\ req = Idle
    /\ \E o \in StripeSubscriptions :
          serve(Signed(Event("customer.subscription.updated", o)))

ReceiveSubscriptionDeleted ==
    /\ req = Idle
    /\ \E o \in DeletedSubscriptions :
          serve(Signed(Event("customer.subscription.deleted", o)))

ReceiveInvoicePaymentFailed ==
    /\ req = Idle
    /\ \E o \in Invoices :
          serve(Signed(Event("invoice.payment_failed", o)))

ReceiveInvoicePaid ==
    /\ req = Idle
    /\ \E o \in Invoices :
          serve(Signed(Event("invoice.paid", o)))

ReceiveUnhandled ==
    /\ req = Idle
    /\ serve(Signed(Event("customer.created", Blank)))

\* Stripe delivers the event of the last request once more.
Redeliver ==
    /\ req # Idle
    /\ req.method = "POST"
    /\ HasRoom(req)
    /\ serve(req)

-----------------------------------------------------------------------------
(* Row-level security on coach_athletes *)

is_coach(check_user_id) ==
    \E id \in DOMAIN profiles :
        id = check_user_id /\ profiles[id].role \in {"coach", "owner"}

\* (SELECT role FROM profiles WHERE id = auth.uid()) = 'owner'
IsOwner(uid) == uid \in DOMAIN profiles /\ profiles[uid].role = "owner"

\* Policy "Coaches can view own assignments", FOR SELECT.
CoachAthletesSelect(uid, row) == uid = row.coach_id \/ is_coach(uid)

\* Policy "Coaches can insert assignments", FOR INSERT.
CoachAthletesInsert(uid, row) == is_coach(uid)

\* Policy "Coaches can delete own assignments", FOR DELETE.
CoachAthletesDelete(uid, row) == uid = row.coach_id \/ IsOwner(uid)

Assignment(coach, athlete) == [coach_id |-> coach, athlete_id |-> athlete]

\* UPDATE profiles SET role = ... , run in the SQL editor.
SetRole ==
    \E u \in Users, r \in Roles :
        /\ profiles[u].role # r
        /\ profiles' = [profiles EXCEPT ![u].role = r]
        /\ authUid' = NULL
        /\ visible' = {}
        /\ UNCHANGED coach_athletes
        /\ UNCHANGED webhookVars

\* INSERT INTO coach_athletes by user uid; UNIQUE (coach_id, athlete_id).
InsertAssignment ==
    \E uid \in Users, c \in Users, a \in Users :
        /\ CoachAthletesInsert(uid, Assignment(c, a))
        /\ Assignment(c, a) \notin coach_athletes
        /\ coach_athletes' = coach_athletes \cup {Assignment(c, a)}
        /\ authUid' = uid
        /\ visible' = {}
        /\ UNCHANGED profiles
        /\ UNCHANGED webhookVars

\* DELETE FROM coach_athletes by user uid: the rows the policy lets it see go.
DeleteAssignment ==
    \E uid \in Users, row \in coach_athletes :
        /\ CoachAthletesDelete(uid, row)
        /\ coach_athletes' = coach_athletes \ {row}
        /\ authUid' = uid
        /\ visible' = {}
        /\ UNCHANGED profiles
        /\ UNCHANGED webhookVars

\* SELECT * FROM coach_athletes by user uid.
SelectAssignments ==
    \E uid \in Users :
        /\ visible' = {row \in coach_athletes : CoachAthletesSelect(uid, row)}
        /\ authUid' = uid
        /\ UNCHANGED <<profiles, coach_athletes>>
        /\ UNCHANGED webhookVars

NextRLS ==
    \/ SetRole
    \/ InsertAssignment
    \/ DeleteAssignment
    \/ SelectAssignments

SpecRLS == Init /\ [][NextRLS]_vars

-----------------------------------------------------------------------------

Next ==
    \/ Tick
    \/ Done
    \/ ReceiveOptions
    \/ ReceiveUnsigned
    \/ ReceiveBadSignature
    \/ ReceiveCheckoutCompleted
    \/ ReceiveSubscriptionUpdated
    \/ ReceiveSubscriptionDeleted
    \/ ReceiveInvoicePaymentFailed
    \/ ReceiveInvoicePaid
    \/ ReceiveUnhandled
    \/ Redeliver

Spec == Init /\ [][Next]_vars

-----------------------------------------------------------------------------
(* Vocabulary of the properties *)

tables == <<subscriptions, coaching_calls, profiles>>

\* The step is one run of the request handler (not time passing, not the end
\* of the invocation).
Serving == req' # Idle /\ now' = now

IsCheckout(r) == Verified(r) /\ r.body.type = "checkout.session.completed"

\* session.customer_details?.email || session.customer_email
EmailOf(session) ==
    IF session.details_email # NoEmail THEN session.details_email
    ELSE session.customer_email

\* The users whose address is the given one, letter case aside.
UsersWithEmail(email) ==
    {u \in Users : email # NoEmail /\ toLowerCase(AuthEmail(u)) = toLowerCase(email)}

-----------------------------------------------------------------------------
(* C1 *)

SignatureRejected(r) ==
    r.method = "POST" /\ (r.signature \in {NULL, ""} \/ r.signature # WEBHOOK_SECRET)

\* C1: a non-OPTIONS request with a missing or invalid signature is answered
\* 400 and runs no handler: no table changes, no write is issued and no
\* Stripe API call is made, whatever event type its body carries.
C1_UnverifiedRejected ==
    [][SignatureRejected(req') =>
          /\ resp'.status = 400
          /\ tables' = tables
          /\ writes' = <<>>
          /\ calls' = <<>>]_vars

C1_Witness ==
    /\ req.method = "POST"
    /\ req.signature = "whsec_other"
    /\ req.body.type = "checkout.session.completed"
    /\ resp.status = 400
    /\ Rows > 0

-----------------------------------------------------------------------------
(* C2 *)

HandlingFailed ==
    \/ \E i \in DOMAIN calls : calls[i].api \in StripeApis /\ ~calls[i].ok
    \/ \E i \in DOMAIN writes : ~writes[i].ok

\* C2: a verified event whose handling fails (a Stripe API call throws or a
\* database write is rejected) is answered 500, and 200 is returned only when
\* handling completed without failure.
C2_FailureIs500 ==
    Verified(req) =>
        /\ HandlingFailed => resp.status = 500
        /\ resp.status = 200 => ~HandlingFailed

-----------------------------------------------------------------------------
(* C3 *)

\* C3 as stated: a verified event of a recognized type performs exactly one
\* database write.
C3_ExactlyOneWrite ==
    (Verified(req) /\ req.body.type \in RecognizedTypes) => Len(writes) = 1

InvoiceHasSubscription(invoice) ==
    invoice.invoice_subscription.kind \in {"string", "object"}
    /\ Truthy(invoice.invoice_subscription.id)

UserMatched ==
    /\ \E i \in DOMAIN calls : calls[i].api = "listUsers" /\ calls[i].ok
    /\ UsersWithEmail(EmailOf(req.body.obj)) # {}

HasCustomer(session) ==
    session.customer.kind \in {"string", "object"} /\ Truthy(session.customer.id)

\* C3, amended: a verified event of a recognized type issues at most two
\* database writes.  customer.subscription.updated and .deleted issue exactly
\* one; invoice.payment_failed and invoice.paid issue one when the invoice
\* carries a subscription id (and, for invoice.paid, the Stripe retrieve does
\* not throw) and none otherwise; checkout.session.completed issues none when
\* no tier is resolved or a Stripe call throws, otherwise one insert, and
\* after it one profiles update when the tier is not coaching_call, a listed
\* user matches the customer e-mail and the session carries a customer id.
C3_WritesPerEvent ==
    (Verified(req) /\ req.body.type \in RecognizedTypes) =>
        LET type == req.body.type
            obj == req.body.obj
        IN  /\ type \in {"customer.subscription.updated",
                         "customer.subscription.deleted"}
                  => Len(writes) = 1
            /\ type = "invoice.payment_failed"
                  => Len(writes) = IF InvoiceHasSubscription(obj) THEN 1 ELSE 0
            /\ type = "invoice.paid"
                  => Len(writes) = IF InvoiceHasSubscription(obj) /\ resp.status = 200
                                   THEN 1 ELSE 0
            /\ type = "checkout.session.completed"
                  => Len(writes) = IF tier = NULL \/ resp.status = 500 THEN 0
                                   ELSE IF tier # "coaching_call" /\ UserMatched
                                           /\ HasCustomer(obj)
                                        THEN 2
                                   ELSE 1

C3_Witness ==
    /\ IsCheckout(req)
    /\ Len(writes) = 2
    /\ writes[1] = Write("subscriptions", "insert", TRUE)
    /\ writes[2] = Write("profiles", "update", TRUE)

-----------------------------------------------------------------------------
(* C4 *)

\* C4: a verified event of an unrecognized type is ignored: subscriptions,
\* coaching_calls and profiles are unchanged, no Stripe API call is made, and
\* the response is 200 {received: true}.
C4_UnrecognizedIgnored ==
    [][(Verified(req') /\ req'.body.type \notin RecognizedTypes) =>
          /\ tables' = tables
          /\ calls' = <<>>
          /\ resp' = Response(200, "received")]_vars

C4_Witness ==
    /\ Verified(req)
    /\ req.body.type = "customer.created"
    /\ resp = Response(200, "received")
    /\ Rows > 0

-----------------------------------------------------------------------------
(* C5 *)

SansUpdatedAt(table) ==
    LET Strip(r) == [f \in DOMAIN r \ {"updated_at"} |-> r[f]]
        rows == {Strip(r) : r \in DOMAIN table}
    IN  [r2 \in rows |-> Copies(table, {r \in DOMAIN table : Strip(r) = r2})]

\* C5: processing the same verified event of a recognized type a second time
\* (the external APIs answering as before) leaves subscriptions (updated_at
\* aside), coaching_calls and profiles as the first processing left them.
C5_RedeliveryIdempotent ==
    [][(/\ Serving
        /\ req' = req
        /\ Verified(req)
        /\ req.body.type \in RecognizedTypes
        /\ calls' = calls) =>
          /\ SansUpdatedAt(subscriptions') = SansUpdatedAt(subscriptions)
          /\ coaching_calls' = coaching_calls
          /\ profiles' = profiles]_vars

-----------------------------------------------------------------------------
(* C6 *)

EnumeratedValues ==
    /\ \A r \in DOMAIN subscriptions :
          /\ r.tier \in {"blueprint", "coaching_call", "full_coaching"}
          /\ r.status \in {"active", "past_due", "canceled", "expired"}
    /\ \A r \in DOMAIN coaching_calls :
          r.status \in {"purchased", "scheduled", "completed"}

\* C6: in every reachable state every subscriptions row has an enumerated tier
\* and status and every coaching_calls row an enumerated status; a
\* checkout.session.completed whose resolved tier is outside the enumerated
\* set adds no row to either table.
C6_EnumeratedValues ==
    /\ []EnumeratedValues
    /\ [][(/\ Serving
           /\ IsCheckout(req')
           /\ tier' \notin {NULL, "blueprint", "coaching_call", "full_coaching"}) =>
             /\ subscriptions' = subscriptions
             /\ coaching_calls' = coaching_calls]_vars

C6_Witness ==
    /\ IsCheckout(req)
    /\ tier = "gold"
    /\ writes # <<>>
    /\ writes[1] = Write("subscriptions", "insert", FALSE)
    /\ Rows > 0

-----------------------------------------------------------------------------
(* C7 *)

\* C7: under the SELECT policy "Coaches can view own assignments" a user whose
\* role is coach reads only assignment rows whose coach_id is their own id.
C7_CoachReadsOnlyOwn ==
    (authUid \in Users /\ profiles[authUid].role = "coach") =>
        \A row \in visible : row.coach_id = authUid

-----------------------------------------------------------------------------
(* C8 *)

FirstWithTier(data, t) ==
    \E i \in DOMAIN data :
        /\ data[i] = t
        /\ Truthy(data[i])
        /\ \A j \in 1..(i - 1) : ~Truthy(data[j])

-----------------------------------------------------------------------------
(* C9 *)

Linked(profs, users, customer) ==
    [u \in Users |-> IF u \in users
                     THEN [profs[u] EXCEPT !.stripe_customer_id = customer]
                     ELSE profs[u]]

\* C9 as stated: with a resolved tier, coaching_call inserts exactly one
\* coaching_calls row with status purchased and leaves subscriptions and
\* profiles alone; any other tier inserts exactly one subscriptions row with
\* that tier and status active, and profiles.stripe_customer_id is set for a
\* user iff an existing user's e-mail equals the customer e-mail, letter case
\* aside, and the session carries a customer id (with no such user the row
\* has user_id null and profiles is unchanged).
C9_CheckoutWrites ==
    [][(Serving /\ IsCheckout(req') /\ tier' # NULL) =>
          LET session == req'.body.obj
              matches == UsersWithEmail(EmailOf(session))
              link == IF HasCustomer(session) THEN matches ELSE {}
          IN  IF tier' = "coaching_call"
              THEN /\ \E r \in DOMAIN coaching_calls' :
                         /\ coaching_calls' = coaching_calls (+) SetToBag({r})
                         /\ r.status = "purchased"
                   /\ subscriptions' = subscriptions
                   /\ profiles' = profiles
              ELSE /\ \E r \in DOMAIN subscriptions' :
                         /\ subscriptions' = subscriptions (+) SetToBag({r})
                         /\ r.tier = tier'
                         /\ r.status = "active"
                         /\ matches = {} => r.user_id = NULL
                   /\ coaching_calls' = coaching_calls
                   /\ profiles' = Linked(profiles, link, session.customer.id)]_vars

\* C9, amended: with a resolved tier and no Stripe call throwing,
\* coaching_call inserts exactly one coaching_calls row with status purchased
\* and leaves subscriptions and profiles alone; blueprint and full_coaching
\* insert exactly one subscriptions row with that tier and status active; a
\* tier outside the enumerated set inserts nothing (the CHECK constraint
\* rejects the row).  For every tier but coaching_call,
\* profiles.stripe_customer_id is set for a user iff listUsers returned a
\* user whose e-mail equals the customer e-mail, letter case aside, and the
\* session carries a customer id; with no such user an inserted row has
\* user_id null and profiles is unchanged.  When a Stripe call throws, no
\* table changes.
C9_CheckoutWritesAmended ==
    [][(Serving /\ IsCheckout(req') /\ tier' # NULL) =>
          LET session == req'.body.obj
              listed == \E i \in DOMAIN calls' :
                            calls'[i].api = "listUsers" /\ calls'[i].ok
              matches == IF listed THEN UsersWithEmail(EmailOf(session)) ELSE {}
              link == IF HasCustomer(session) THEN matches ELSE {}
              threw == \E i \in DOMAIN calls' :
                           calls'[i].api \in {"listLineItems", "retrieve"}
                           /\ ~calls'[i].ok
          IN  IF threw
              THEN tables' = tables
              ELSE IF tier' = "coaching_call"
              THEN /\ \E r \in DOMAIN coaching_calls' :
                         /\ coaching_calls' = coaching_calls (+) SetToBag({r})
                         /\ r.status = "purchased"
                         /\ matches = {} => r.user_id = NULL
                   /\ subscriptions' = subscriptions
                   /\ profiles' = profiles
              ELSE /\ IF tier' \in {"blueprint", "full_coaching"}
                      THEN \E r \in DOMAIN subscriptions' :
                              /\ subscriptions' = subscriptions (+) SetToBag({r})
                              /\ r.tier = tier'
                              /\ r.status = "active"
                              /\ matches = {} => r.user_id = NULL
                              /\ matches # {} => r.user_id \in matches
                      ELSE subscriptions' = subscriptions
                   /\ coaching_calls' = coaching_calls
                   /\ profiles' = Linked(profiles, link, session.customer.id)]_vars

C9_Witness ==
    /\ IsCheckout(req)
    /\ tier = "blueprint"
    /\ req.body.obj.details_email = <<65, 64, 120>>
    /\ profiles["u1"].stripe_customer_id = "cus_1"
    /\ profiles["u2"].stripe_customer_id = NULL
    /\ \E r \in DOMAIN subscriptions :
          r.user_id = "u1" /\ r.tier = "blueprint" /\ r.status = "active"

-----------------------------------------------------------------------------
(* C10 *)

\* C10: customer.subscription.updated leaves every row with the event's
\* stripe_subscription_id with status active when cancel_at_period_end is
\* true, and otherwise active for Stripe status active, past_due for past_due
\* and canceled for any other Stripe status; the row carries the event's
\* cancel_at_period_end and current_period_end.
C10_SubscriptionUpdated ==
    (Verified(req) /\ req.body.type = "customer.subscription.updated") =>
        LET sub == req.body.obj
            expected == IF sub.cancel_at_period_end THEN "active"
                        ELSE CASE sub.status = "active" -> "active"
                               [] sub.status = "past_due" -> "past_due"
                               [] OTHER -> "canceled"
        IN  \A r \in DOMAIN subscriptions :
                r.stripe_subscription_id = sub.id =>
                    /\ r.status = expected
                    /\ r.cancel_at_period_end = sub.cancel_at_period_end
                    /\ r.current_period_end = ToISO(sub.current_period_end)

C10_Witness ==
    /\ Verified(req)
    /\ req.body.type = "customer.subscription.updated"
    /\ req.body.obj.status = "trialing"
    /\ ~req.body.obj.cancel_at_period_end
    /\ \E r \in DOMAIN subscriptions :
          /\ r.stripe_subscription_id = req.body.obj.id
          /\ r.status = "canceled"
          /\ r.current_period_end = "1970-01-01T00:00:02.000Z"
    /\ \E r \in DOMAIN subscriptions : r.stripe_subscription_id = NULL

-----------------------------------------------------------------------------
(* C11 *)

StatusEvents ==
    {"customer.subscription.updated", "customer.subscription.deleted",
     "invoice.payment_failed", "invoice.paid"}

\* The stripe_subscription_id an event of StatusEvents is about (NULL for an
\* invoice that carries none).
EventSubscriptionId(event) ==
    IF event.type \in {"customer.subscription.updated",
                       "customer.subscription.deleted"}
        THEN event.obj.id
    ELSE IF event.obj.invoice_subscription.kind \in {"string", "object"}
        THEN event.obj.invoice_subscription.id
    ELSE NULL

\* The status an event of StatusEvents determines.
EventStatus(event) ==
    CASE event.type = "customer.subscription.updated" ->
             IF event.obj.cancel_at_period_end \/ event.obj.status = "active"
                 THEN "active"
             ELSE IF event.obj.status = "past_due" THEN "past_due"
             ELSE "canceled"
      [] event.type = "customer.subscription.deleted" -> "canceled"
      [] event.type = "invoice.payment_failed" -> "past_due"
      [] event.type = "invoice.paid" -> "active"

RowsOf(table, id) == {r \in DOMAIN table : r.stripe_subscription_id = id}

\* The rows of other subscriptions, and those of none.
Others(table, id) ==
    [r \in {x \in DOMAIN table : x.stripe_subscription_id # id} |-> table[r]]

\* The columns no event of StatusEvents may touch.
Identity(table) ==
    LET Keep(r) == [f \in {"user_id", "tier", "stripe_subscription_id",
                           "stripe_customer_id", "customer_email"} |-> r[f]]
        rows == {Keep(r) : r \in DOMAIN table}
    IN  [r2 \in rows |-> Copies(table, {r \in DOMAIN table : Keep(r) = r2})]

\* C11 as stated: once a verified event of StatusEvents has been processed,
\* every row with its stripe_subscription_id has the status that event
\* determines.
C11_LastEventDecides ==
    (/\ Verified(req)
     /\ req.body.type \in StatusEvents
     /\ Truthy(EventSubscriptionId(req.body))) =>
        \A r \in RowsOf(subscriptions, EventSubscriptionId(req.body)) :
            r.status = EventStatus(req.body)

\* A stored status of canceled can be left again: invoice.paid for the
\* subscription of a canceled row can make every row of it active.
CanceledNotAbsorbing ==
    \A s \in SubIds :
        (/\ req = Idle
         /\ \E r \in RowsOf(subscriptions, s) : r.status = "canceled") =>
            ENABLED (/\ ReceiveInvoicePaid
                     /\ EventSubscriptionId(req'.body) = s
                     /\ \A r \in RowsOf(subscriptions', s) : r.status = "active")

\* C11, amended: a verified customer.subscription.updated, .deleted,
\* invoice.payment_failed or invoice.paid that is handled without a Stripe
\* failure leaves every row carrying its stripe_subscription_id with the
\* status the event alone determines, whatever the rows held before; an
\* invoice.paid whose subscriptions.retrieve throws is answered 500 and leaves
\* the rows as they were.  In either case no row is created or deleted, tier,
\* user_id and the other identifying columns keep their values, the rows of
\* other subscriptions, coaching_calls and profiles are unchanged; and
\* canceled is not absorbing.
C11_LastWriterWins ==
    /\ []CanceledNotAbsorbing
    /\ [][(/\ Serving
           /\ Verified(req')
           /\ req'.body.type \in StatusEvents) =>
             LET id == EventSubscriptionId(req'.body)
             IN  /\ BagCardinality(subscriptions') = BagCardinality(subscriptions)
                 /\ Identity(subscriptions') = Identity(subscriptions)
                 /\ Others(subscriptions', id) = Others(subscriptions, id)
                 /\ coaching_calls' = coaching_calls
                 /\ profiles' = profiles
                 /\ (resp'.status = 200 /\ Truthy(id)) =>
                        \A r \in RowsOf(subscriptions', id) :
                            r.status = EventStatus(req'.body)
                 /\ resp'.status # 200 => subscriptions' = subscriptions]_vars

\* invoice.paid has been handled at time 1 for a subscription with two rows,
\* one of them with cancel_at_period_end set; both are active.
C11_Witness ==
    /\ Verified(req)
    /\ req.body.type = "invoice.paid"
    /\ resp.status = 200
    /\ now = 1
    /\ \E r \in RowsOf(subscriptions, EventSubscriptionId(req.body)) :
          /\ r.status = "active"
          /\ r.updated_at = ToISO(1)
          /\ r.cancel_at_period_end
    /\ BagCardinality(subscriptions) = 2

====
